---- MODULE Spec2Model ----
(***************************************************************************)
(* pi-haiku: the line-oriented declaration rewriter of PyProjectModifier   *)
(* (convert_to_local / convert_to_remote / _convert_to).                   *)
(*                                                                         *)
(* Text is modelled as a sequence of tokens.  A token is a piece of text   *)
(* that none of the string operations of the code can cut in two: the      *)
(* separator "=", a blank, a newline, a quote, a brace, a word.            *)
(* Python's None is the empty sequence and a present value x is <<x>>.     *)
(***************************************************************************)
EXTENDS Integers, Sequences, FiniteSets, TLC

\* fs:    the files, path -> None (no such file) or Some(body)
\* calls: the conversions called so far, with their arguments and results
\* pmod:  the PyProjectModifier at hand, None before it is built
\* io:    what the environment does to the next write and external command
\* run:   the position of the program: the construction of the modifier, or
\*        the run of Haiku.convert_projects_to_local
VARIABLES fs, calls, pmod, io, run

vars == <<fs, calls, pmod, io, run>>

\* Largest number of lines of a manifest.
MaxLines == 2

None == <<>>
Some(x) == <<x>>

SP == " "
EQ == "="
NL == "\n"
QT == "\""

----------------------------------------------------------------------------
(* Packages.  A package has a name (a text), a version and the directory   *)
(* that holds its manifest; all directories are siblings.                  *)

Package1 == [name |-> <<"package1">>, version |-> "0.1.0", dir |-> "package1"]
Package2 == [name |-> <<"package2">>, version |-> "^0.2.0", dir |-> "package2"]
Package3 == [name |-> <<"package3">>, version |-> "^0.3.0", dir |-> "package3"]

\* self.pyproj: the package whose manifest is rewritten.
pyproj == pmod[1].pyproj

\* self.packages: the package lookup, name -> package.
packages == pmod[1].packages

\* self.packages[package_name], None on KeyError.
PackagesGet(package_name) ==
    IF \E p \in packages : p.name = package_name
    THEN Some(CHOOSE p \in packages : p.name = package_name)
    ELSE None

----------------------------------------------------------------------------
(* Rules (PackageMatch).  package_regex is a literal, optionally closed by *)
(* "$"; version_regex is r"^.*$" ("all") or a literal token ("lit").       *)

VersionField == "{package.version}"
RelPathField == "{package.path.relative}"

\* "{package.version}"
RemoteTemplate == <<VersionField>>

\* '{develop = true, path = "{package.path.relative}"}'
LocalTemplate ==
    <<"{", "develop", SP, EQ, SP, "true", ",", SP,
      "path", SP, EQ, SP, QT, RelPathField, QT, "}">>

AllRegex == [kind |-> "all", tok |-> ""]

PackageMatch(package_regex, version_regex, version_to) ==
    [package_regex |-> package_regex,
     version_regex |-> version_regex,
     version_to    |-> version_to]

\* ToLocalMatch(package_regex=name): the regex is used as given, unanchored.
ToLocalMatch(name) ==
    PackageMatch([lit |-> name, dollar |-> FALSE], AllRegex, LocalTemplate)

\* ToRemoteMatch(package_regex=name)
ToRemoteMatch(name) ==
    PackageMatch([lit |-> name, dollar |-> FALSE], AllRegex, RemoteTemplate)

----------------------------------------------------------------------------
(* String operations of Python, on token sequences.                        *)

\* t in s
Contains(s, t) == \E i \in 1..Len(s) : s[i] = t

IsSpace(t) == t \in {SP, NL}

RECURSIVE LStrip(_)
LStrip(s) == IF s # <<>> /\ IsSpace(Head(s)) THEN LStrip(Tail(s)) ELSE s

RECURSIVE RStrip(_)
RStrip(s) ==
    IF s # <<>> /\ IsSpace(s[Len(s)]) THEN RStrip(SubSeq(s, 1, Len(s) - 1)) ELSE s

\* s.strip()
Strip(s) == RStrip(LStrip(s))

\* s.split("=", maxsplit=1) of a text that contains "=".
SplitOnce(s) ==
    LET i == CHOOSE k \in 1..Len(s) : s[k] = EQ /\ \A j \in 1..(k - 1) : s[j] # EQ
    IN  <<SubSeq(s, 1, i - 1), SubSeq(s, i + 1, Len(s))>>

\* re.match(regex, s): the match object (its group(0)) or None.  re.match
\* anchors the pattern at the start of s only.
ReMatch(regex, s) ==
    IF /\ Len(regex.lit) <= Len(s)
       /\ SubSeq(s, 1, Len(regex.lit)) = regex.lit
       /\ (regex.dollar => Len(s) = Len(regex.lit))
    THEN Some(regex.lit)
    ELSE None

\* re.sub with the pattern r".*": since Python 3.7 the empty match at the
\* end of a non-empty text is replaced too.
RECURSIVE ReSub_Unanchored(_, _, _)
ReSub_Unanchored(version_regex, version_to, s) ==
    IF version_regex.kind = "all"
    THEN IF s = <<>> THEN version_to ELSE version_to \o version_to
    ELSE IF s = <<>> THEN <<>>
         ELSE (IF Head(s) = version_regex.tok THEN version_to ELSE <<Head(s)>>)
              \o ReSub_Unanchored(version_regex, version_to, Tail(s))

\* re.sub(version_regex, version_to, s)
RECURSIVE ReSub(_, _, _)
ReSub(version_regex, version_to, s) ==
    IF version_regex.kind = "all"
    THEN version_to
    ELSE IF s = <<>> THEN <<>>
         ELSE (IF Head(s) = version_regex.tok THEN version_to ELSE <<Head(s)>>)
              \o ReSub(version_regex, version_to, Tail(s))

\* Path of other_pkg's directory relative to pkg's directory.
RelativePath(pkg, other_pkg) ==
    IF pkg.dir = other_pkg.dir THEN <<".">> ELSE <<"../", other_pkg.dir>>

\* special_substitutions(s, pkg=pkg, other_pkg=other_pkg): the fields of the
\* target package are resolved when the target is known.
RECURSIVE special_substitutions(_, _, _)
special_substitutions(s, pkg, other_pkg) ==
    IF s = <<>> THEN <<>>
    ELSE LET t == Head(s)
             r == IF other_pkg = None THEN <<t>>
                  ELSE IF t = VersionField THEN <<QT, other_pkg[1].version, QT>>
                  ELSE IF t = RelPathField THEN RelativePath(pkg, other_pkg[1])
                  ELSE <<t>>
         IN  r \o special_substitutions(Tail(s), pkg, other_pkg)

----------------------------------------------------------------------------
(* _convert_to: the rewriting of one line and of the whole body.           *)

NoValue == [new_value |-> <<>>, matched |-> FALSE]

\* ApplyRules that looks the matched package up under no name.
RECURSIVE ApplyRules_NoLookup(_, _, _, _)
ApplyRules_NoLookup(match_patterns, package, previous_package_info, acc) ==
    IF match_patterns = <<>> THEN acc
    ELSE LET mp == Head(match_patterns)
             m  == ReMatch(mp.package_regex, package)
         IN  IF m = None
             THEN ApplyRules_NoLookup(Tail(match_patterns), package,
                                      previous_package_info, acc)
             ELSE ApplyRules_NoLookup(Tail(match_patterns), package, previous_package_info,
                      [new_value |-> special_substitutions(
                                         ReSub(mp.version_regex, mp.version_to,
                                               previous_package_info),
                                         pyproj, None),
                       matched   |-> TRUE])

\* ApplyRules that sets matched before it tests the match.
RECURSIVE ApplyRules_MatchedEarly(_, _, _, _)
ApplyRules_MatchedEarly(match_patterns, package, previous_package_info, acc) ==
    IF match_patterns = <<>> THEN acc
    ELSE LET mp == Head(match_patterns)
             m  == ReMatch(mp.package_regex, package)
         IN  IF m = None
             THEN ApplyRules_MatchedEarly(Tail(match_patterns), package,
                                          previous_package_info,
                                          [acc EXCEPT !.matched = TRUE])
             ELSE ApplyRules_MatchedEarly(Tail(match_patterns), package,
                      previous_package_info,
                      [new_value |-> special_substitutions(
                                         ReSub(mp.version_regex, mp.version_to,
                                               previous_package_info),
                                         pyproj, PackagesGet(m[1])),
                       matched   |-> TRUE])

\* ApplyRules with a loop that stops at the first rule that matches.
RECURSIVE ApplyRules_FirstMatch(_, _, _, _)
ApplyRules_FirstMatch(match_patterns, package, previous_package_info, acc) ==
    IF match_patterns = <<>> THEN acc
    ELSE LET mp == Head(match_patterns)
             m  == ReMatch(mp.package_regex, package)
         IN  IF m = None
             THEN ApplyRules_FirstMatch(Tail(match_patterns), package,
                                        previous_package_info, acc)
             ELSE [new_value |-> special_substitutions(
                                     ReSub(mp.version_regex, mp.version_to,
                                           previous_package_info),
                                     pyproj, PackagesGet(m[1])),
                   matched   |-> TRUE]

\* The loop over match_patterns for one line: acc is (new_value, matched).
RECURSIVE ApplyRules_SkipMiss(_, _, _, _)
ApplyRules_SkipMiss(match_patterns, package, previous_package_info, acc) ==
    IF match_patterns = <<>> THEN acc
    ELSE LET mp == Head(match_patterns)
             m  == ReMatch(mp.package_regex, package)
         IN  IF m = None \/ PackagesGet(m[1]) = None
             THEN ApplyRules_SkipMiss(Tail(match_patterns), package,
                                      previous_package_info, acc)
             ELSE ApplyRules_SkipMiss(Tail(match_patterns), package, previous_package_info,
                      [new_value |-> special_substitutions(
                                         ReSub(mp.version_regex, mp.version_to,
                                               previous_package_info),
                                         pyproj, PackagesGet(m[1])),
                       matched   |-> TRUE])

RECURSIVE ApplyRules_Running(_, _, _, _)
ApplyRules_Running(match_patterns, package, previous_package_info, acc) ==
    IF match_patterns = <<>> THEN acc
    ELSE LET mp == Head(match_patterns)
             m  == ReMatch(mp.package_regex, package)
         IN  IF m = None
             THEN ApplyRules_Running(Tail(match_patterns), package,
                                     previous_package_info, acc)
             ELSE ApplyRules_Running(Tail(match_patterns), package, previous_package_info,
                      [new_value |-> special_substitutions(
                                         ReSub(mp.version_regex, mp.version_to,
                                               IF acc.matched THEN acc.new_value
                                               ELSE previous_package_info),
                                         pyproj, PackagesGet(m[1])),
                       matched   |-> TRUE])

RECURSIVE ApplyRules(_, _, _, _)
ApplyRules(match_patterns, package, previous_package_info, acc) ==
    IF match_patterns = <<>> THEN acc
    ELSE LET mp == Head(match_patterns)
             m  == ReMatch(mp.package_regex, package)
         IN  IF m = None
             THEN ApplyRules(Tail(match_patterns), package, previous_package_info, acc)
             ELSE LET package_name    == m[1]
                      matched_package == PackagesGet(package_name)
                      substituted     == ReSub(mp.version_regex, mp.version_to,
                                               previous_package_info)
                      new_value       == special_substitutions(substituted, pyproj,
                                                               matched_package)
                  IN  ApplyRules(Tail(match_patterns), package, previous_package_info,
                                 [new_value |-> new_value, matched |-> TRUE])

\* package (the trimmed key) of a line that contains "=".
KeyOf(line) == Strip(SplitOnce(Strip(line))[1])

\* previous_package_info (the trimmed right-hand side) of such a line.
ValueOf(line) == Strip(SplitOnce(Strip(line))[2])

\* f"{package}={new_value}\n"
FormatLine_NoBlanks(package, new_value) == package \o <<EQ>> \o new_value \o <<NL>>

\* f"{package} = {new_value}\n"
FormatLine(package, new_value) == package \o <<SP, EQ, SP>> \o new_value \o <<NL>>

\* RewriteLine that reports every matched line as a change.
RewriteLine_AlwaysChange(line, match_patterns) ==
    IF ~Contains(line, EQ)
    THEN [line |-> line, changes |-> <<>>]
    ELSE LET r        == ApplyRules(match_patterns, KeyOf(line), ValueOf(line), NoValue)
             new_line == FormatLine(KeyOf(line), r.new_value)
         IN  IF r.matched
             THEN [line |-> new_line, changes |-> <<(<<line, new_line>>)>>]
             ELSE [line |-> line, changes |-> <<>>]

\* RewriteLine that rebuilds every line with a key, matched or not.
RewriteLine_Normalise(line, match_patterns) ==
    IF ~Contains(line, EQ)
    THEN [line |-> line, changes |-> <<>>]
    ELSE LET r        == ApplyRules(match_patterns, KeyOf(line), ValueOf(line), NoValue)
             value    == IF r.matched THEN r.new_value ELSE ValueOf(line)
             new_line == FormatLine(KeyOf(line), value)
         IN  IF line # new_line
             THEN [line |-> new_line, changes |-> <<(<<line, new_line>>)>>]
             ELSE [line |-> line, changes |-> <<>>]

\* The body of the loop over the lines: the line appended to new_lines and
\* the changes appended to changes.
RewriteLine(line, match_patterns) ==
    IF ~Contains(line, EQ)
    THEN [line |-> line, changes |-> <<>>]
    ELSE LET r        == ApplyRules(match_patterns, KeyOf(line), ValueOf(line), NoValue)
             new_line == FormatLine(KeyOf(line), r.new_value)
         IN  IF r.matched /\ line # new_line
             THEN [line |-> new_line, changes |-> <<(<<line, new_line>>)>>]
             ELSE [line |-> line, changes |-> <<>>]

HeaderLine == <<"[tool.poetry.dependencies]", NL>>

\* The header of the table of the package's own fields.
ToolPoetryHeader == <<"[tool.poetry]", NL>>

Headers == {HeaderLine, ToolPoetryHeader}

\* Line j of the manifest is in the dependency table: the header before it
\* is [tool.poetry.dependencies].
InDependencies(lines, j) ==
    \E k \in 1..(j - 1) :
        /\ lines[k] = HeaderLine
        /\ \A l \in (k + 1)..(j - 1) : lines[l] \notin Headers

\* A loop that rewrites the lines of the dependency table only.
RewriteLines_DependenciesOnly(lines, match_patterns) ==
    LET f[j \in 0..Len(lines)] ==
            IF j = 0 THEN [new_lines |-> <<>>, changes |-> <<>>]
            ELSE LET h == IF InDependencies(lines, j)
                          THEN RewriteLine(lines[j], match_patterns)
                          ELSE [line |-> lines[j], changes |-> <<>>]
                 IN  [new_lines |-> Append(f[j - 1].new_lines, h.line),
                      changes   |-> f[j - 1].changes \o h.changes]
    IN  f[Len(lines)]

RECURSIVE RewriteLines_NewestFirst(_, _)
RewriteLines_NewestFirst(lines, match_patterns) ==
    IF lines = <<>> THEN [new_lines |-> <<>>, changes |-> <<>>]
    ELSE LET h == RewriteLine(Head(lines), match_patterns)
             t == RewriteLines_NewestFirst(Tail(lines), match_patterns)
         IN  [new_lines |-> <<h.line>> \o t.new_lines,
              changes   |-> t.changes \o h.changes]

\* The loop over the lines of the manifest.
RECURSIVE RewriteLines(_, _)
RewriteLines(lines, match_patterns) ==
    IF lines = <<>> THEN [new_lines |-> <<>>, changes |-> <<>>]
    ELSE LET h == RewriteLine(Head(lines), match_patterns)
             t == RewriteLines(Tail(lines), match_patterns)
         IN  [new_lines |-> <<h.line>> \o t.new_lines,
              changes   |-> h.changes \o t.changes]

----------------------------------------------------------------------------
(* convert_to_local / convert_to_remote / _convert_to on a file system.    *)
(* A file system maps a path to None (no such file) or Some(body).         *)

\* pyproj.path, the manifest of the modifier.
SrcPath  == pmod[1].src
DestPath == "dest"
\* <backup_dir>/<package-name>_<manifest-filename>
BackupDir  == "backup"
BackupPath == "backup/package1_pyproject.toml"

\* Rules per package whose version_regex matches the quotation marks of
\* the value only.
RECURSIVE CreateMatchPatternsFromPackages_QuotesOnly(_, _)
CreateMatchPatternsFromPackages_QuotesOnly(pkgs, version_to) ==
    IF pkgs = <<>> THEN <<>>
    ELSE <<PackageMatch([lit |-> Head(pkgs).name, dollar |-> TRUE],
                        [kind |-> "lit", tok |-> QT], version_to)>>
         \o CreateMatchPatternsFromPackages_QuotesOnly(Tail(pkgs), version_to)

\* _create_match_patterns_from_packages: one rule "^name$" per package.
RECURSIVE CreateMatchPatternsFromPackages(_, _)
CreateMatchPatternsFromPackages(pkgs, version_to) ==
    IF pkgs = <<>> THEN <<>>
    ELSE <<PackageMatch([lit |-> Head(pkgs).name, dollar |-> TRUE], AllRegex, version_to)>>
         \o CreateMatchPatternsFromPackages(Tail(pkgs), version_to)

Raised(exc) ==
    [outcome |-> exc, rules |-> <<>>, new_lines |-> <<>>, changes |-> <<>>,
     sorted |-> FALSE, wrote |-> None]

\* run_bash_command(f"toml-sort {dest_file}"): toml-sort without -i/-o
\* prints the sorted document and leaves the file as it is.
TomlSortRuns(use_toml_sort, dest) == use_toml_sort /\ dest # None

\* _convert_to that copies the body to the destination even when nothing
\* changed.
ConvertTo_CopyAlways(fsys, match_patterns, dest_file, in_place, use_toml_sort) ==
    IF dest_file # None /\ in_place
    THEN [call |-> Raised("ValueError"), fs |-> fsys]
    ELSE LET dest == IF in_place THEN Some(SrcPath) ELSE dest_file
             body == RewriteLines(fsys[SrcPath][1], match_patterns)
         IN  IF dest = None
             THEN [call |-> [outcome |-> IF body.changes = <<>> THEN "ok"
                                         ELSE "AssertionError",
                             rules |-> match_patterns,
                             new_lines |-> body.new_lines, changes |-> <<>>,
                             sorted |-> FALSE, wrote |-> None],
                   fs |-> fsys]
             ELSE [call |-> [outcome |-> "ok", rules |-> match_patterns,
                             new_lines |-> body.new_lines, changes |-> body.changes,
                             sorted |-> TomlSortRuns(use_toml_sort, dest),
                             wrote |-> dest],
                   fs |-> [fsys EXCEPT ![dest[1]] = Some(body.new_lines)]]

ConvertTo_NoModeCheck(fsys, match_patterns, dest_file, in_place, use_toml_sort) ==
    LET dest == IF in_place THEN Some(SrcPath) ELSE dest_file
        body == RewriteLines(fsys[SrcPath][1], match_patterns)
    IN  IF body.changes = <<>>
        THEN [call |-> [outcome |-> "ok", rules |-> match_patterns,
                        new_lines |-> body.new_lines, changes |-> <<>>,
                        sorted |-> TomlSortRuns(use_toml_sort, dest),
                        wrote |-> None],
              fs |-> fsys]
        ELSE [call |-> [outcome |-> "ok", rules |-> match_patterns,
                        new_lines |-> body.new_lines, changes |-> body.changes,
                        sorted |-> TomlSortRuns(use_toml_sort, dest),
                        wrote |-> dest],
              fs |-> [fsys EXCEPT ![dest[1]] = Some(body.new_lines)]]

\* r"\1" in a template: re.sub raises re.error (invalid group reference),
\* as no pattern of the rules has a group.
BackRef == "\\1"

\* Processing the line raises: a rule matches its key and re.sub is called
\* with a template it rejects.
Raises(line, match_patterns) ==
    /\ Contains(line, EQ)
    /\ \E j \in 1..Len(match_patterns) :
          /\ ReMatch(match_patterns[j].package_regex, KeyOf(line)) # None
          /\ Contains(match_patterns[j].version_to, BackRef)

\* The first line on which the loop raises, 0 when it runs to the end.
FirstError(lines, match_patterns) ==
    IF \E i \in 1..Len(lines) : Raises(lines[i], match_patterns)
    THEN CHOOSE i \in 1..Len(lines) :
             /\ Raises(lines[i], match_patterns)
             /\ \A k \in 1..(i - 1) : ~Raises(lines[k], match_patterns)
    ELSE 0

\* shutil.copy(tmpfile.name, dest_file): the destination is opened for
\* writing, which empties it, and filled piece by piece; a failure leaves
\* what was copied until then.
ShutilCopy(fsys, dest, new_lines) ==
    IF io.kind = "open"
    THEN [raised |-> TRUE, fs |-> fsys]
    ELSE IF io.kind = "copy"
    THEN [raised |-> TRUE,
          fs |-> [fsys EXCEPT ![dest] =
                     Some(SubSeq(new_lines, 1,
                                 IF io.lines < Len(new_lines) THEN io.lines
                                 ELSE Len(new_lines)))]]
    ELSE [raised |-> FALSE, fs |-> [fsys EXCEPT ![dest] = Some(new_lines)]]

\* run_bash_command raises CalledProcessError when the command fails.
TomlSortFails(use_toml_sort, dest) ==
    TomlSortRuns(use_toml_sort, dest) /\ io.kind = "sort"

\* A rewriter that writes each line to the destination as soon as it is
\* processed.
ConvertTo_WriteAsItGoes(fsys, match_patterns, dest_file, in_place, use_toml_sort) ==
    LET dest == IF in_place THEN Some(SrcPath) ELSE dest_file
        err  == FirstError(fsys[SrcPath][1], match_patterns)
        body == RewriteLines(SubSeq(fsys[SrcPath][1], 1, IF err = 0 THEN Len(fsys[SrcPath][1]) ELSE err - 1),
                             match_patterns)
    IN  [call |-> [outcome |-> IF err = 0 THEN "ok" ELSE "re.error",
                   rules |-> match_patterns,
                   new_lines |-> body.new_lines, changes |-> body.changes,
                   sorted |-> FALSE, wrote |-> dest],
         fs |-> IF dest = None THEN fsys
                ELSE [fsys EXCEPT ![dest[1]] = Some(body.new_lines)]]

\* _convert_to.  backup_file is the path returned by shutil.copy, a
\* non-empty string, so the test "not in_place and not backup_file" is
\* never true.
ConvertTo(fsys, match_patterns, dest_file, in_place, use_toml_sort) ==
    IF dest_file # None /\ in_place
    THEN [call |-> Raised("ValueError"), fs |-> fsys]
    ELSE LET dest == IF in_place THEN Some(SrcPath) ELSE dest_file
             body == RewriteLines(fsys[SrcPath][1], match_patterns)
             failed(exc, wrote) ==
                 [outcome |-> exc, rules |-> match_patterns,
                  new_lines |-> body.new_lines, changes |-> <<>>,
                  sorted |-> FALSE, wrote |-> wrote]
         IN  IF FirstError(fsys[SrcPath][1], match_patterns) # 0
             THEN [call |-> [outcome |-> "re.error", rules |-> match_patterns,
                             new_lines |-> <<>>, changes |-> <<>>,
                             sorted |-> FALSE, wrote |-> None],
                   fs |-> fsys]
             ELSE IF body.changes = <<>>
             THEN IF TomlSortFails(use_toml_sort, dest)
                  THEN [call |-> failed("CalledProcessError", None), fs |-> fsys]
                  ELSE [call |-> [outcome |-> "ok", rules |-> match_patterns,
                                  new_lines |-> body.new_lines, changes |-> <<>>,
                                  sorted |-> TomlSortRuns(use_toml_sort, dest),
                                  wrote |-> None],
                        fs |-> fsys]
             ELSE IF dest = None
             THEN [call |-> failed("AssertionError", None), fs |-> fsys]
             ELSE LET copy == ShutilCopy(fsys, dest[1], body.new_lines)
                  IN  IF copy.raised
                      THEN [call |-> failed("OSError", None), fs |-> copy.fs]
                      ELSE IF TomlSortFails(use_toml_sort, dest)
                      THEN [call |-> failed("CalledProcessError", dest), fs |-> copy.fs]
                      ELSE [call |-> [outcome |-> "ok", rules |-> match_patterns,
                                      new_lines |-> body.new_lines,
                                      changes |-> body.changes,
                                      sorted |-> TomlSortRuns(use_toml_sort, dest),
                                      wrote |-> dest],
                            fs |-> copy.fs]

\* The rules a conversion hands to _convert_to; version_to is the template
\* of the direction.
EffectivePatterns(match_patterns, pkgs, version_to) ==
    IF pkgs # None
    THEN CreateMatchPatternsFromPackages(pkgs[1], version_to)
    ELSE match_patterns[1]

Convert_NoEmptyCheck(fsys, version_to, match_patterns, pkgs, dest_file, in_place, use_toml_sort) ==
    IF match_patterns = None /\ pkgs = None
    THEN ConvertTo(fsys, <<>>, dest_file, in_place, use_toml_sort)
    ELSE ConvertTo(fsys, EffectivePatterns(match_patterns, pkgs, version_to),
                   dest_file, in_place, use_toml_sort)

\* The common body of convert_to_local and convert_to_remote.
Convert(fsys, version_to, match_patterns, pkgs, dest_file, in_place, use_toml_sort) ==
    IF match_patterns = None /\ pkgs = None
    THEN [call |-> Raised("ValueError"), fs |-> fsys]
    ELSE IF EffectivePatterns(match_patterns, pkgs, version_to) = <<>>
    THEN [call |-> Raised("ValueError"), fs |-> fsys]
    ELSE ConvertTo(fsys, EffectivePatterns(match_patterns, pkgs, version_to),
                   dest_file, in_place, use_toml_sort)

TemplateOf(op) == IF op = "local" THEN LocalTemplate ELSE RemoteTemplate

convert_to_local(fsys, match_patterns, pkgs, dest_file, in_place, use_toml_sort) ==
    Convert(fsys, LocalTemplate, match_patterns, pkgs, dest_file, in_place, use_toml_sort)

convert_to_remote(fsys, match_patterns, pkgs, dest_file, in_place, use_toml_sort) ==
    Convert(fsys, RemoteTemplate, match_patterns, pkgs, dest_file, in_place, use_toml_sort)

----------------------------------------------------------------------------
(* The manifests and the arguments explored.                               *)

P2Key    == <<"package2">>
P2XKey   == <<"package2", "-extra">>
NumpyKey == <<"numpy">>

\* "^0.2.0"
RemoteValue == <<QT, "^0.2.0", QT>>
\* {develop = true, path = "../package2"}
LocalValue ==
    <<"{", "develop", SP, EQ, SP, "true", ",", SP,
      "path", SP, EQ, SP, QT, "../", "package2", QT, "}">>
\* { path = "../package2" }
LocalNoDevelopValue ==
    <<"{", SP, "path", SP, EQ, SP, QT, "../", "package2", QT, SP, "}">>
\* {path = "../package2", develop = true}
LocalPathFirstValue ==
    <<"{", "path", SP, EQ, SP, QT, "../", "package2", QT, ",", SP,
      "develop", SP, EQ, SP, "true", "}">>


\* The text of a manifest line "key = value" with its newline.
Declaration(key, value) == key \o <<" ", "=", " ">> \o value \o <<"\n">>

ManifestLines ==
    { Declaration(P2Key, RemoteValue),
      Declaration(P2Key, LocalValue),
      Declaration(P2Key, LocalNoDevelopValue),
      Declaration(P2Key, LocalPathFirstValue),
      P2Key \o <<EQ>> \o RemoteValue \o <<NL>>,
      P2Key \o <<SP, EQ, SP>> \o RemoteValue,
      Declaration(P2XKey, RemoteValue),
      Declaration(NumpyKey, <<QT, "^1.21.0", QT>>),
      HeaderLine,
      ToolPoetryHeader }

HasKey(line) == Contains(line, EQ)

\* A local declaration: an inline table with a path.
IsLocalForm(v) == v # <<>> /\ v[1] = "{" /\ Contains(v, "path")

\* What toml.load accepted when the modifier was built: a key is not
\* declared twice in one table; only the last line may lack its newline.
ValidManifest(lines) ==
    /\ \A i \in 1..(Len(lines) - 1) : lines[i][Len(lines[i])] = NL
    /\ \A i \in 1..Len(lines) : ~HasKey(lines[i]) => lines[i] \in Headers
    /\ \A i, j \in 1..Len(lines) : (i < j /\ lines[i] \in Headers) => lines[j] # lines[i]
    /\ \A i, j \in 1..Len(lines) :
          (i < j /\ HasKey(lines[i]) /\ HasKey(lines[j])
                 /\ KeyOf(lines[i]) = KeyOf(lines[j]))
          => \E k \in (i + 1)..(j - 1) : lines[k] \in Headers

Manifests ==
    { m \in UNION { [1..n -> ManifestLines] : n \in 1..MaxLines } : ValidManifest(m) }

\* A version_regex that matches one literal version.
VersionRegex(tok) == [kind |-> "lit", tok |-> tok]

\* Two rules for package2 that edit the version in the declaration: the
\* first turns ^0.2.0 into ^0.3.0, the second ^0.3.0 into ^0.4.0.
BumpRules ==
    << PackageMatch([lit |-> P2Key, dollar |-> TRUE], VersionRegex("^0.2.0"), <<"^0.3.0">>),
       PackageMatch([lit |-> P2Key, dollar |-> TRUE], VersionRegex("^0.3.0"), <<"^0.4.0">>) >>

\* A rule for numpy, then a rule for package2 whose template re.sub rejects.
BadTemplateRules ==
    << ToRemoteMatch(NumpyKey),
       PackageMatch([lit |-> P2Key, dollar |-> TRUE], AllRegex, <<BackRef>>) >>

RuleLists ==
    { <<>>,
      <<ToLocalMatch(P2Key)>>,
      <<ToRemoteMatch(P2Key)>>,
      <<ToRemoteMatch(P2Key), ToLocalMatch(P2Key)>>,
      <<ToLocalMatch(P2Key), ToRemoteMatch(P2Key)>>,
      <<ToRemoteMatch(NumpyKey)>>,
      <<ToRemoteMatch(NumpyKey), ToRemoteMatch(P2Key)>>,
      BumpRules,
      BadTemplateRules }

PackageLists == { <<>>, <<Package3>>, <<Package2, Package3>> }

Args ==
    [match_patterns : {None} \cup { Some(r) : r \in RuleLists },
     packages       : {None} \cup { Some(l) : l \in PackageLists },
     dest_file      : {None, Some(DestPath)},
     in_place       : BOOLEAN,
     use_toml_sort  : BOOLEAN]

\* The arguments a with the keyword backup_dir.
WithBackupDir(a, backup_dir) ==
    [match_patterns |-> a.match_patterns, packages |-> a.packages,
     dest_file |-> a.dest_file, in_place |-> a.in_place,
     use_toml_sort |-> a.use_toml_sort, backup_dir |-> backup_dir]

\* The calls explored: without backup_dir, and with backup_dir as the only
\* output mode.
KeywordArgs ==
    { WithBackupDir(a, None) : a \in Args }
    \cup { WithBackupDir(a, Some(BackupDir)) :
             a \in { x \in Args : x.dest_file = None /\ ~x.in_place } }

\* The modifier of package1 with package2 and package3 in its lookup.
Modifier1 == [src |-> "src", pyproj |-> Package1, packages |-> {Package2, Package3}]

\* No failure of a write or of an external command.
NoFault == [kind |-> "none", lines |-> 0]

\* The modifier is built and no run of Haiku is under way.
NoRun == [phase |-> "none", error |-> None]

----------------------------------------------------------------------------

Init ==
    /\ pmod = Some(Modifier1)
    /\ io = NoFault
    /\ run = NoRun
    /\ \E m \in Manifests : fs = [f \in {Modifier1.src, DestPath, BackupPath} |->
                                    IF f = Modifier1.src THEN Some(m) ELSE None]
    /\ calls = <<>>

\* The rules of an earlier call, with the template of direction op.
RECURSIVE Retarget(_, _)
Retarget(rules, op) ==
    IF rules = <<>> THEN <<>>
    ELSE <<PackageMatch(Head(rules).package_regex, AllRegex, TemplateOf(op))>>
         \o Retarget(Tail(rules), op)

\* A second call on the same modifier follows a successful in-place call
\* and selects the same packages, in either direction.
RepeatArgs(op) ==
    LET c == calls[1]
    IN  { [match_patterns |-> m, packages |-> c.packages, dest_file |-> None,
           in_place |-> TRUE, use_toml_sort |-> c.use_toml_sort,
           backup_dir |-> None] :
          m \in {c.match_patterns} \cup
                (IF c.match_patterns = None THEN {}
                 ELSE {Some(Retarget(c.match_patterns[1], op))}) }

CallArgs(op) ==
    IF calls = <<>> THEN KeywordArgs
    ELSE IF Len(calls) = 1 /\ calls[1].outcome = "ok" /\ calls[1].in_place
    THEN RepeatArgs(op)
    ELSE {}

Record(op, a, r) ==
    [op |-> op, match_patterns |-> a.match_patterns, packages |-> a.packages,
     dest_file |-> a.dest_file, in_place |-> a.in_place,
     use_toml_sort |-> a.use_toml_sort, backup_dir |-> a.backup_dir,
     src |-> SrcPath, input |-> fs[SrcPath][1],
     outcome |-> r.call.outcome, rules |-> r.call.rules,
     new_lines |-> r.call.new_lines, changes |-> r.call.changes,
     sorted |-> r.call.sorted, wrote |-> r.call.wrote]

\* The call op(**a): Python rejects the keyword backup_dir, which is not a
\* parameter of convert_to_local / convert_to_remote.
Call(op, a) ==
    IF a.backup_dir # None
    THEN [call |-> Raised("TypeError"), fs |-> fs]
    ELSE IF op = "local"
    THEN convert_to_local(fs, a.match_patterns, a.packages, a.dest_file,
                          a.in_place, a.use_toml_sort)
    ELSE convert_to_remote(fs, a.match_patterns, a.packages, a.dest_file,
                           a.in_place, a.use_toml_sort)

ConvertToLocal ==
    /\ pmod # None /\ run = NoRun
    /\ \E a \in CallArgs("local") :
          /\ fs' = Call("local", a).fs
          /\ calls' = Append(calls, Record("local", a, Call("local", a)))
    /\ UNCHANGED <<pmod, io, run>>

ConvertToRemote ==
    /\ pmod # None /\ run = NoRun
    /\ \E a \in CallArgs("remote") :
          /\ fs' = Call("remote", a).fs
          /\ calls' = Append(calls, Record("remote", a, Call("remote", a)))
    /\ UNCHANGED <<pmod, io, run>>

Next == ConvertToLocal \/ ConvertToRemote

Spec == Init /\ [][Next]_vars

\* The failures of the environment: the destination cannot be opened, the
\* copy breaks off after some lines (after the last one: the content is
\* complete and the copy of the permission bits fails), toml-sort fails.
IOFaults ==
    { [kind |-> "open", lines |-> 0], [kind |-> "sort", lines |-> 0] }
    \cup { [kind |-> "copy", lines |-> k] : k \in 0..MaxLines }

\* The modifier of package1 in an environment that fails.
InitIO ==
    /\ pmod = Some(Modifier1)
    /\ io \in IOFaults
    /\ run = NoRun
    /\ \E m \in Manifests : fs = [f \in {Modifier1.src, DestPath, BackupPath} |->
                                    IF f = Modifier1.src THEN Some(m) ELSE None]
    /\ calls = <<>>

SpecIO == InitIO /\ [][Next]_vars

TypeOK ==
    /\ DOMAIN fs = {SrcPath, DestPath, BackupPath}
    /\ fs[SrcPath] # None
    /\ Len(calls) <= 2

----------------------------------------------------------------------------
(* PyProjectModifier(src, packages=...): the construction.                 *)

\* "This is not a valid TOML file"
GarbageLine == <<"This is not a valid TOML file">>

\* The bodies toml.load rejects.
InvalidManifests ==
    { m \in UNION { [1..n -> ManifestLines \cup {GarbageLine}] : n \in 0..MaxLines } :
        ~ValidManifest(m) }

PostInit_NoParse(fsys, src, pkg, pkgs) ==
    IF fsys[src] = None
    THEN [raised |-> Some("FileNotFoundError"), pmod |-> None]
    ELSE [raised |-> None,
          pmod |-> Some([src |-> src, pyproj |-> pkg, packages |-> pkgs])]

\* __post_init__: the path must exist and the file must parse; pkg is the
\* package PyPackage.from_path reads from it.
PostInit(fsys, src, pkg, pkgs) ==
    IF fsys[src] = None
    THEN [raised |-> Some("FileNotFoundError"), pmod |-> None]
    ELSE IF ~ValidManifest(fsys[src][1])
    THEN [raised |-> Some("ValueError"), pmod |-> None]
    ELSE [raised |-> None,
          pmod |-> Some([src |-> src, pyproj |-> pkg, packages |-> pkgs])]

\* Before the construction.
NewRun == [phase |-> "new", error |-> None]

InitLoad ==
    /\ pmod = None
    /\ io = NoFault
    /\ run = NewRun
    /\ \E file \in {None} \cup { Some(m) : m \in Manifests \cup InvalidManifests } :
          fs = [f \in {Modifier1.src, DestPath, BackupPath} |->
                  IF f = Modifier1.src THEN file ELSE None]
    /\ calls = <<>>

\* PyProjectModifier(src, packages=packages)
Construct ==
    /\ run.phase = "new"
    /\ LET r == PostInit(fs, Modifier1.src, Modifier1.pyproj, Modifier1.packages)
       IN  /\ pmod' = r.pmod
           /\ run' = IF r.raised # None
                     THEN [phase |-> "raised", error |-> r.raised]
                     ELSE NoRun
    /\ UNCHANGED <<fs, calls, io>>

NextLoad == Construct \/ ConvertToLocal \/ ConvertToRemote

SpecLoad == InitLoad /\ [][NextLoad]_vars

----------------------------------------------------------------------------
(* Haiku.convert_projects_to_local over a directory of manifests.          *)

\* Largest number of manifests found in the directory.
MaxTomls == 3

AllPackages == {Package1, Package2, Package3}

\* name = {develop = true, path = "../dir"}: a local reference to pkg.
LocalDeclaration(pkg) ==
    Declaration(pkg.name, <<"{", "develop", SP, EQ, SP, "true", ",", SP,
                            "path", SP, EQ, SP, QT, "../", pkg.dir, QT, "}">>)

\* name = "version": a remote reference to pkg.
RemoteDeclaration(pkg) == Declaration(pkg.name, <<QT, pkg.version, QT>>)

\* The dependency tables of the manifests of package pkg.
Bodies(pkg) ==
    {<<>>}
    \cup { <<LocalDeclaration(q)>> : q \in AllPackages \ {pkg} }
    \cup (IF pkg = Package1
          THEN { <<RemoteDeclaration(Package2)>>,
                 <<LocalDeclaration(Package2), LocalDeclaration(Package3)>> }
          ELSE {})

\* The manifests a directory may hold: the package declared and the body.
Tomls == UNION { { [pkg |-> q, body |-> b] : b \in Bodies(q) } : q \in AllPackages }

\* The directories: the manifests in the order os.walk yields them.
Dirs == UNION { [1..n -> Tomls] : n \in 0..MaxTomls }

TomlPath(i) == "dir" \o ToString(i) \o "/pyproject.toml"
TmpPath(i)  == "tmp" \o ToString(i) \o ".toml"

\* find_pyproject_tomls and PyPackage.from_path: the packages found, in
\* order, each with the path and the body of its manifest.
Found(dir) ==
    [i \in 1..Len(dir) |-> [pkg |-> dir[i].pkg, path |-> TomlPath(i), body |-> dir[i].body]]

Range(f) == { f[i] : i \in DOMAIN f }

Min(S) == CHOOSE x \in S : \A y \in S : x <= y

\* find_duplicates(found): the names declared by more than one manifest.
find_duplicates(found) ==
    { found[i].pkg.name : i \in { k \in 1..Len(found) :
                                   \E l \in 1..Len(found) :
                                       l # k /\ found[l].pkg.name = found[k].pkg.name } }

\* pkgs[pkg.name] = pkg on an insertion-ordered dict: a name already present
\* keeps its position and takes the new value.
DictPut(pkgs, p) ==
    IF \E i \in 1..Len(pkgs) : pkgs[i].pkg.name = p.pkg.name
    THEN [i \in 1..Len(pkgs) |-> IF pkgs[i].pkg.name = p.pkg.name THEN p ELSE pkgs[i]]
    ELSE Append(pkgs, p)

RECURSIVE DictOf(_, _)
DictOf(found, pkgs) ==
    IF found = <<>> THEN pkgs ELSE DictOf(Tail(found), DictPut(pkgs, Head(found)))

TomlsToPackages_NoDuplicateCheck(found) ==
    [raised |-> None, pkgs |-> DictOf(found, <<>>)]

\* _tomls_to_packages(tomls)
TomlsToPackages(found) ==
    IF find_duplicates(found) # {}
    THEN [raised |-> Some([exc |-> "ValueError", names |-> find_duplicates(found)]),
          pkgs |-> <<>>]
    ELSE [raised |-> None, pkgs |-> DictOf(found, <<>>)]

\* PyPackage.get_local_dependencies: the keys declared with a path.
LocalDependencies(body) ==
    { KeyOf(body[i]) : i \in { k \in 1..Len(body) :
                                 HasKey(body[k]) /\ IsLocalForm(ValueOf(body[k])) } }

Names(projs) == { projs[i].pkg.name : i \in 1..Len(projs) }

\* create_dag(list(projs.values())): name -> the names it depends on through
\* a local reference, inside the set.
create_dag(projs) ==
    [n \in Names(projs) |->
        LocalDependencies((CHOOSE q \in Range(projs) : q.pkg.name = n).body)
        \cap Names(projs)]

RECURSIVE Closure(_, _)
Closure(dag, S) ==
    LET T == S \cup UNION { dag[m] : m \in S }
    IN  IF T = S THEN S ELSE Closure(dag, T)

\* The packages that take part in a cycle.
OnCycle(dag) == { n \in DOMAIN dag : n \in Closure(dag, dag[n]) }

Remove(seq, i) == [k \in 1..(Len(seq) - 1) |-> IF k < i THEN seq[k] ELSE seq[k + 1]]

\* Stable topological sort, dependencies first: the next package is the
\* first one, in input order, whose dependencies are all placed.
RECURSIVE TopoOrder(_, _, _)
TopoOrder(dag, pending, done) ==
    LET ready == { i \in 1..Len(pending) : dag[pending[i]] \subseteq Range(done) }
    IN  IF pending = <<>> THEN [raised |-> None, order |-> done]
        ELSE IF ready = {}
        THEN [raised |-> Some([exc |-> "CycleError", names |-> OnCycle(dag)]),
              order |-> <<>>]
        ELSE TopoOrder(dag, Remove(pending, Min(ready)),
                       Append(done, pending[Min(ready)]))

\* topological_sort(dag), the dag in the order of projs.
topological_sort(dag, projs) ==
    TopoOrder(dag, [i \in 1..Len(projs) |-> projs[i].pkg.name], <<>>)

IsKnown(projs, n) == n \in Names(projs)

Flattened_InputOrder(projs) ==
    [raised |-> None, order |-> [i \in 1..Len(projs) |-> projs[i].pkg.name]]

Flattened_DropCycle(projs) ==
    IF topological_sort(create_dag(projs), projs).raised # None
    THEN [raised |-> None,
          order |-> SelectSeq([i \in 1..Len(projs) |-> projs[i].pkg.name],
                              LAMBDA n : n \notin OnCycle(create_dag(projs)))]
    ELSE topological_sort(create_dag(projs), projs)

\* flattened: the sorted names that are keys of projs.
Flattened(projs) ==
    LET sorted == topological_sort(create_dag(projs), projs)
    IN  IF sorted.raised # None THEN sorted
        ELSE [raised |-> None,
              order |-> SelectSeq(sorted.order, LAMBDA n : IsKnown(projs, n))]

\* The arguments of convert_projects_to_local.
ExcludeProjects == {None, Some(<<Package2.name>>)}

\* The run before the call: the directory it will be given.
IdleRun(dir) ==
    [phase |-> "idle", dir |-> dir, exclude_projects |-> None, dry_run |-> TRUE,
     projs |-> <<>>, flattened |-> <<>>, i |-> 1, step |-> "top",
     changes |-> <<>>, error |-> None]

InitHaiku ==
    /\ \E dir \in Dirs :
          /\ run = IdleRun(dir)
          /\ fs = [f \in { TomlPath(i) : i \in 1..Len(dir) }
                        \cup { TmpPath(i) : i \in 1..Len(dir) } |->
                     IF \E i \in 1..Len(dir) : f = TomlPath(i)
                     THEN Some(dir[CHOOSE i \in 1..Len(dir) : f = TomlPath(i)].body)
                     ELSE None]
    /\ calls = <<>>
    /\ pmod = None
    /\ io = NoFault

\* Lines 22-28: discovery, the graph and its order.
HaikuStart ==
    /\ run.phase = "idle"
    /\ \E exclude_projects \in ExcludeProjects, dry_run \in BOOLEAN :
          LET projs == TomlsToPackages(Found(run.dir))
              called == [run EXCEPT !.exclude_projects = exclude_projects,
                                    !.dry_run = dry_run]
          IN  IF projs.raised # None
              THEN run' = [called EXCEPT !.phase = "raised", !.error = projs.raised]
              ELSE IF Flattened(projs.pkgs).raised # None
              THEN run' = [called EXCEPT !.phase = "raised",
                                         !.error = Flattened(projs.pkgs).raised]
              ELSE run' = [called EXCEPT !.phase = "loop", !.projs = projs.pkgs,
                                         !.flattened = Flattened(projs.pkgs).order]
    /\ UNCHANGED <<fs, calls, pmod, io>>

\* The loop is at a package.
InLoop == run.phase = "loop" /\ run.i <= Len(run.flattened)

\* projs[proj_name]
Proj == CHOOSE q \in Range(run.projs) : q.pkg.name = run.flattened[run.i]

Excluded_Never(r, proj_name) == FALSE

Excluded(r, proj_name) ==
    r.exclude_projects # None /\ proj_name \in Range(r.exclude_projects[1])

\* Lines 29-31: an excluded package is passed over.
HaikuSkip ==
    /\ InLoop /\ run.step = "top"
    /\ Excluded(run, run.flattened[run.i])
    /\ run' = [run EXCEPT !.i = @ + 1]
    /\ UNCHANGED <<fs, calls, pmod, io>>

\* Lines 32-35: the modifier of the package, with every package found in its
\* lookup.
HaikuModifier ==
    /\ InLoop /\ run.step = "top"
    /\ ~Excluded(run, run.flattened[run.i])
    /\ LET r == PostInit(fs, Proj.path, Proj.pkg, { q.pkg : q \in Range(run.projs) })
       IN  /\ pmod' = r.pmod
           /\ run' = IF r.raised # None
                     THEN [run EXCEPT !.phase = "raised",
                                      !.error = Some([exc |-> r.raised[1], names |-> {}])]
                     ELSE [run EXCEPT !.step = "modifier"]
    /\ UNCHANGED <<fs, calls, io>>

\* list_projs
ListProjs == [k \in 1..Len(run.projs) |-> run.projs[k].pkg]

\* A conversion of line 38 made in place.
HaikuArgs_InPlace ==
    [match_patterns |-> None, packages |-> Some(ListProjs),
     dest_file |-> None, in_place |-> TRUE,
     use_toml_sort |-> FALSE, backup_dir |-> None]

\* The arguments of the conversion of line 38.
HaikuArgs ==
    [match_patterns |-> None, packages |-> Some(ListProjs),
     dest_file |-> Some(TmpPath(run.i)), in_place |-> FALSE,
     use_toml_sort |-> FALSE, backup_dir |-> None]

\* Lines 36-47: a fresh temporary file, the conversion into it, and the
\* change list kept under the package.
HaikuConvert ==
    /\ InLoop /\ run.step = "modifier"
    /\ LET r == Call("local", HaikuArgs)
       IN  /\ fs' = [f \in DOMAIN fs |->
                       IF f = TmpPath(run.i) /\ r.fs[f] = None THEN Some(<<>>)
                       ELSE r.fs[f]]
           /\ calls' = Append(calls, Record("local", HaikuArgs, r))
           /\ run' = IF r.call.outcome = "ok"
                     THEN [run EXCEPT !.i = @ + 1, !.step = "top",
                                      !.changes = Append(@, [proj |-> Proj.pkg,
                                                             file_changes |-> r.call.changes])]
                     ELSE [run EXCEPT !.phase = "raised",
                                      !.error = Some([exc |-> r.call.outcome, names |-> {}])]
    /\ UNCHANGED <<pmod, io>>

\* Line 50: the mapping is returned.
HaikuReturn ==
    /\ run.phase = "loop" /\ run.i > Len(run.flattened)
    /\ run' = [run EXCEPT !.phase = "returned"]
    /\ UNCHANGED <<fs, calls, pmod, io>>

NextHaiku == HaikuStart \/ HaikuSkip \/ HaikuModifier \/ HaikuConvert \/ HaikuReturn

SpecHaiku == InitHaiku /\ [][NextHaiku]_vars

----------------------------------------------------------------------------
(* Vocabulary of the properties.                                           *)

Last == calls[Len(calls)]

\* The call rewrote the lines: it was not rejected for its arguments and no
\* line raised.
Rewrote(c) == c.outcome \notin {"ValueError", "TypeError", "re.error"}

\* The call did not ask for both a destination file and an in-place write.
OneMode(c) == ~(c.dest_file # None /\ c.in_place)

\* The call names where to write: a destination file or in place, not both.
HasDestination(c) == (c.dest_file # None) # c.in_place

\* The rule selects the key, as the rewriter decides it.
Selects(mp, key) == ReMatch(mp.package_regex, key) # None

\* The indices of the rules that select the key.
MatchingRules(rules, key) == { j \in 1..Len(rules) : Selects(rules[j], key) }

\* The line has a key that some rule selects.
Matched(line, rules) == HasKey(line) /\ MatchingRules(rules, KeyOf(line)) # {}

\* The value rule mp renders for the line.
Rendered(mp, line) ==
    special_substitutions(ReSub(mp.version_regex, mp.version_to, ValueOf(line)),
                          pyproj, PackagesGet(ReMatch(mp.package_regex, KeyOf(line))[1]))

\* The last rule, in the order supplied, that selects the key of the line.
LastMatching(rules, line) ==
    rules[CHOOSE j \in MatchingRules(rules, KeyOf(line)) :
              \A k \in MatchingRules(rules, KeyOf(line)) : k <= j]

\* The body of the file the call wrote.
Written(c) == fs[c.wrote[1]][1]

----------------------------------------------------------------------------
(* C1 *)

\* C1: when a conversion is called with both an explicit, non-empty
\* match_patterns list and a packages list, the rules applied to the
\* manifest are the explicit match_patterns: on a manifest with a line
\* they select, the call does not fail for want of rules and its new body
\* is the input rewritten by them.
C1_ExplicitPatternsApplied ==
    (calls # <<>> /\ Last.match_patterns # None /\ Last.match_patterns # Some(<<>>)
                  /\ Last.packages # None /\ HasDestination(Last)
                  /\ \E i \in 1..Len(Last.input) :
                        Matched(Last.input[i], Last.match_patterns[1]))
    => /\ Last.outcome = "ok"
       /\ Last.new_lines = RewriteLines(Last.input, Last.match_patterns[1]).new_lines

----------------------------------------------------------------------------
(* C2 *)

\* C2: every line without "=" and every line whose trimmed key is selected
\* by no rule is, in the new body and in the file written, the input line
\* itself at the same position.
C2_NonInterference ==
    (calls # <<>> /\ Rewrote(Last))
    => /\ Len(Last.new_lines) = Len(Last.input)
       /\ \A i \in 1..Len(Last.input) :
             ~Matched(Last.input[i], Last.rules)
             => /\ Last.new_lines[i] = Last.input[i]
                /\ Last.wrote # None => Written(Last)[i] = Last.input[i]

\* A call rewrote one line and wrote the file, next to a line it had to
\* leave alone.
C2_Witness ==
    /\ calls # <<>> /\ Last.outcome = "ok" /\ Last.wrote # None
    /\ \E i, j \in 1..Len(Last.input) :
          /\ ~Matched(Last.input[i], Last.rules)
          /\ Written(Last)[i] = Last.input[i]
          /\ Matched(Last.input[j], Last.rules)
          /\ Written(Last)[j] # Last.input[j]

----------------------------------------------------------------------------
(* C3 *)

\* The regex of the rule matches the whole key.
FullySelects(mp, key) == mp.package_regex.lit = key

\* C3: a rule applies to a line only if its package_regex matches the
\* whole trimmed key; a line whose key no rule matches in full is left
\* unchanged.
C3_FullMatchOnly ==
    (calls # <<>> /\ Last.outcome = "ok")
    => \A i \in 1..Len(Last.input) :
          (HasKey(Last.input[i])
           /\ \A j \in 1..Len(Last.rules) :
                 ~FullySelects(Last.rules[j], KeyOf(Last.input[i])))
          => Last.new_lines[i] = Last.input[i]

----------------------------------------------------------------------------
(* C4 *)

\* C4: the new text of a line whose key is selected by several rules is
\* "key = value" with the value rendered by the last of them in the order
\* supplied.
C4_LastMatchingRuleWins ==
    (calls # <<>> /\ Rewrote(Last))
    => \A i \in 1..Len(Last.input) :
          Matched(Last.input[i], Last.rules)
          => Last.new_lines[i] =
                FormatLine(KeyOf(Last.input[i]),
                           Rendered(LastMatching(Last.rules, Last.input[i]),
                                    Last.input[i]))

\* Two rules that render different values select one line, and the line
\* written carries the value of the second.
C4_Witness ==
    /\ calls # <<>> /\ Last.outcome = "ok" /\ Last.wrote # None
    /\ \E i \in 1..Len(Last.input) :
          /\ Matched(Last.input[i], Last.rules)
          /\ MatchingRules(Last.rules, KeyOf(Last.input[i])) = {1, 2}
          /\ Rendered(Last.rules[1], Last.input[i]) # Rendered(Last.rules[2], Last.input[i])
          /\ Written(Last)[i] = FormatLine(KeyOf(Last.input[i]),
                                          Rendered(Last.rules[2], Last.input[i]))

----------------------------------------------------------------------------
(* C5 *)


\* A remote declaration: a quoted version string.
IsRemoteForm(v) == v # <<>> /\ v[1] = QT

InTargetForm(op, v) == IF op = "local" THEN IsLocalForm(v) ELSE IsRemoteForm(v)

\* Every rule of the call carries the template of the call's direction.
StandardRules(c) ==
    /\ c.rules # <<>>
    /\ \A j \in 1..Len(c.rules) :
          c.rules[j].version_regex = AllRegex /\ c.rules[j].version_to = TemplateOf(c.op)

\* The package the last matching rule names is in the lookup.
TargetKnown(line, rules) ==
    PackagesGet(LastMatching(rules, line).package_regex.lit) # None

\* The text the conversion builds for a matched line.
Rebuilt(line, rules) == FormatLine(KeyOf(line), Rendered(LastMatching(rules, line), line))

----------------------------------------------------------------------------
(* C6 *)

NoBlanks(v) == SelectSeq(v, LAMBDA t : t # SP)

\* The development flag of a local declaration: develop = true is there.
DevelopOf(v) ==
    LET w == NoBlanks(v)
    IN  \E k \in 1..(Len(w) - 2) : w[k] = "develop" /\ w[k + 1] = EQ /\ w[k + 2] = "true"

RECURSIVE UpToQuote(_)
UpToQuote(s) ==
    IF s = <<>> \/ Head(s) = QT THEN <<>> ELSE <<Head(s)>> \o UpToQuote(Tail(s))

\* The path of a local declaration: the text quoted after path =.
PathOf(v) ==
    LET w == NoBlanks(v)
        K == { k \in 1..(Len(w) - 3) : w[k] = "path" /\ w[k + 1] = EQ /\ w[k + 2] = QT }
    IN  IF K = {} THEN <<>>
        ELSE UpToQuote(SubSeq(w, (CHOOSE k \in K : TRUE) + 3, Len(w)))

\* A conversion to remote form followed by a conversion to local form,
\* both in place, both with the rules of their direction.
RoundTrip ==
    /\ Len(calls) = 2
    /\ calls[1].op = "remote" /\ calls[1].outcome = "ok" /\ StandardRules(calls[1])
    /\ calls[2].op = "local" /\ calls[2].outcome = "ok" /\ StandardRules(calls[2])

\* Line i was a local declaration of a package of the lookup before the
\* round trip, and both conversions selected it.
RoundTripLine(i) ==
    /\ i \in 1..Len(calls[1].input)
    /\ Matched(calls[1].input[i], calls[1].rules)
    /\ Matched(calls[1].input[i], calls[2].rules)
    /\ TargetKnown(calls[1].input[i], calls[1].rules)
    /\ TargetKnown(calls[1].input[i], calls[2].rules)
    /\ IsLocalForm(ValueOf(calls[1].input[i]))

\* C6 as stated: after the round trip the declaration has the path and
\* the development flag it had before.
C6_RoundTripRestores ==
    RoundTrip
    => \A i \in 1..Len(calls[1].input) :
          RoundTripLine(i)
          => /\ PathOf(ValueOf(fs[SrcPath][1][i])) = PathOf(ValueOf(calls[1].input[i]))
             /\ DevelopOf(ValueOf(fs[SrcPath][1][i])) = DevelopOf(ValueOf(calls[1].input[i]))

\* C6 amended: after the round trip the declaration is a local one whose
\* path is the path of the target package relative to the converting
\* package and whose development flag is set, whatever the flag was.
C6_RoundTripLocalDevelop ==
    RoundTrip
    => \A i \in 1..Len(calls[1].input) :
          RoundTripLine(i)
          => LET v == ValueOf(fs[SrcPath][1][i])
                 t == PackagesGet(LastMatching(calls[2].rules,
                                               calls[1].input[i]).package_regex.lit)[1]
             IN  /\ IsLocalForm(v)
                 /\ PathOf(v) = RelativePath(pyproj, t)
                 /\ DevelopOf(v)
                 /\ KeyOf(fs[SrcPath][1][i]) = KeyOf(calls[1].input[i])

\* A declaration with develop = true went to remote form and came back
\* with the same path and flag; both conversions reported a change.
C6_Witness ==
    /\ RoundTrip
    /\ calls[1].changes # <<>> /\ calls[2].changes # <<>>
    /\ \E i \in 1..Len(calls[1].input) :
          /\ RoundTripLine(i)
          /\ DevelopOf(ValueOf(calls[1].input[i]))
          /\ IsRemoteForm(ValueOf(calls[2].input[i]))
          /\ PathOf(ValueOf(fs[SrcPath][1][i])) = PathOf(ValueOf(calls[1].input[i]))
          /\ DevelopOf(ValueOf(fs[SrcPath][1][i]))

----------------------------------------------------------------------------
(* C7, C8 *)

\* Line i declares package2, the last rule that selects it carries the
\* template version_to of r"^.*$", and no other line is selected.
OnlyDeclaration(c, i, version_to) ==
    /\ i \in 1..Len(c.input)
    /\ HasKey(c.input[i]) /\ KeyOf(c.input[i]) = P2Key
    /\ Matched(c.input[i], c.rules)
    /\ LastMatching(c.rules, c.input[i]).version_regex = AllRegex
    /\ LastMatching(c.rules, c.input[i]).version_to = version_to
    /\ TargetKnown(c.input[i], c.rules)
    /\ \A j \in 1..Len(c.input) : j # i => ~Matched(c.input[j], c.rules)

\* C7: convert_to_local of a manifest whose only selected line declares
\* package2 with a version string, under a rule with the local template,
\* writes package2 = {develop = true, path = "../package2"} and returns
\* exactly that one change.
C7_ToLocalExample ==
    (calls # <<>> /\ Last.op = "local" /\ HasDestination(Last) /\ Last.rules # <<>>)
    => \A i \in 1..Len(Last.input) :
          (OnlyDeclaration(Last, i, LocalTemplate) /\ IsRemoteForm(ValueOf(Last.input[i])))
          => /\ Last.outcome = "ok"
             /\ Last.changes = <<(<<Last.input[i], Declaration(P2Key, LocalValue)>>)>>
             /\ Last.wrote # None
             /\ Written(Last)[i] = Declaration(P2Key, LocalValue)

\* package2 = "^0.2.0" was converted to local form by rules derived from
\* the package list, into a destination file.
C7_Witness ==
    /\ calls # <<>> /\ Last.op = "local" /\ Last.outcome = "ok"
    /\ Last.packages # None /\ Last.dest_file = Some(DestPath)
    /\ \E i \in 1..Len(Last.input) :
          /\ OnlyDeclaration(Last, i, LocalTemplate)
          /\ Last.input[i] = Declaration(P2Key, RemoteValue)
          /\ fs[DestPath] # None
          /\ fs[DestPath][1][i] = Declaration(P2Key, LocalValue)
          /\ Len(Last.changes) = 1

\* C8: convert_to_remote of a manifest whose only selected line declares
\* package2 in local form, under a rule with the remote template, writes
\* package2 = "V" with V the version of package2 and returns exactly that
\* one change.
C8_ToRemoteExample ==
    (calls # <<>> /\ Last.op = "remote" /\ HasDestination(Last) /\ Last.rules # <<>>)
    => \A i \in 1..Len(Last.input) :
          (OnlyDeclaration(Last, i, RemoteTemplate) /\ IsLocalForm(ValueOf(Last.input[i])))
          => /\ Last.outcome = "ok"
             /\ Last.changes =
                   <<(<<Last.input[i], Declaration(P2Key, <<QT, Package2.version, QT>>)>>)>>
             /\ Last.wrote # None
             /\ Written(Last)[i] = Declaration(P2Key, <<QT, Package2.version, QT>>)

\* package2 = {path = "../package2", develop = true} was converted to
\* remote form in place.
C8_Witness ==
    /\ calls # <<>> /\ Last.op = "remote" /\ Last.outcome = "ok" /\ Last.in_place
    /\ \E i \in 1..Len(Last.input) :
          /\ OnlyDeclaration(Last, i, RemoteTemplate)
          /\ Last.input[i] = Declaration(P2Key, LocalPathFirstValue)
          /\ fs[SrcPath][1][i] = Declaration(P2Key, RemoteValue)
          /\ Len(Last.changes) = 1

----------------------------------------------------------------------------
(* C9, C10 *)

C10_NoChangesNoDestinationFile ==
    (calls # <<>> /\ Last.dest_file # None /\ Last.outcome = "ok" /\ Last.changes = <<>>)
    => /\ Last.wrote = None
       /\ fs[Last.dest_file[1]] = None

\* A conversion to a destination file ran its rules over a manifest with
\* a declaration and changed nothing.
C10_Witness ==
    /\ calls # <<>> /\ Last.dest_file # None /\ Last.outcome = "ok"
    /\ Last.rules # <<>> /\ Last.changes = <<>>
    /\ \E i \in 1..Len(Last.input) : HasKey(Last.input[i])
    /\ fs[DestPath] = None

----------------------------------------------------------------------------
\* The call that the step from the current state adds to calls.
NewCall == calls'[Len(calls')]

\* The step is a call of a conversion.
IsCall == Len(calls') = Len(calls) + 1

\* The call has no effective rule: neither match_patterns nor packages, or
\* the list in force (packages override match_patterns) is empty.
NoRules(c) ==
    \/ c.match_patterns = None /\ c.packages = None
    \/ EffectivePatterns(c.match_patterns, c.packages, TemplateOf(c.op)) = <<>>

\* C11: a conversion called with a backup directory (and rules) returns its
\* change list, leaves the source manifest as it was and, when something
\* changed, writes the converted manifest to
\* <backup_dir>/<package-name>_<manifest-filename>.
C11_BackupDirConversion ==
    \A i \in 1..Len(calls) :
        calls[i].backup_dir # None /\ ~NoRules(calls[i])
        => /\ calls[i].outcome = "ok"
           /\ fs[SrcPath] = Some(calls[i].input)
           /\ calls[i].changes # <<>> => fs[BackupPath] = Some(calls[i].new_lines)

\* C12: a call with both dest_file and in_place=True raises ValueError and
\* modifies no file, neither the source nor the destination.
C12_BothModesRejected ==
    [][IsCall /\ NewCall.dest_file # None /\ NewCall.in_place
       => NewCall.outcome = "ValueError" /\ fs' = fs]_vars

\* A call with both modes, with rules that select a line of the manifest, was
\* rejected.
C12_Witness ==
    /\ calls # <<>>
    /\ Last.dest_file # None /\ Last.in_place
    /\ ~NoRules(Last)
    /\ \E j \in 1..Len(Last.input) :
          /\ Matched(Last.input[j],
                     EffectivePatterns(Last.match_patterns, Last.packages, TemplateOf(Last.op)))
          /\ ValueOf(Last.input[j]) = RemoteValue
    /\ Last.op = "local"
    /\ Last.outcome = "ValueError"

\* C13: a call (with the parameters of the signature) whose effective rule
\* list is empty raises ValueError before any rewrite: no line is rewritten
\* and no file is modified.
C13_NoRulesRejected ==
    [][IsCall /\ NewCall.backup_dir = None /\ NoRules(NewCall)
       => /\ NewCall.outcome = "ValueError"
          /\ NewCall.new_lines = <<>>
          /\ fs' = fs]_vars

\* A call with an empty package list, a destination and explicit rules that
\* select a line of the manifest was rejected.
C13_Witness ==
    /\ calls # <<>>
    /\ Last.packages = Some(<<>>)
    /\ Last.match_patterns # None /\ Last.match_patterns # Some(<<>>)
    /\ HasDestination(Last)
    /\ \E j \in 1..Len(Last.input) : Matched(Last.input[j], Last.match_patterns[1])
    /\ Last.outcome = "ValueError"


\* C14: a call with neither dest_file nor in_place raises ValueError, for
\* every manifest and every rule list.
C14_NoModeRejected ==
    \A i \in 1..Len(calls) :
        calls[i].dest_file = None /\ ~calls[i].in_place /\ calls[i].backup_dir = None
        => calls[i].outcome = "ValueError"

----------------------------------------------------------------------------
\* The dependency graph of the packages of the run.
RunDag == create_dag(run.projs)

\* The position of the name in a sequence of distinct names.
Position(seq, n) == CHOOSE i \in 1..Len(seq) : seq[i] = n

\* The name of the package whose manifest call c converted.
Converted(c) == (CHOOSE q \in Range(run.projs) : q.path = c.src).pkg.name

\* Every manifest of the directory is as it was found, and no temporary file
\* exists.
NothingWritten ==
    \A i \in 1..Len(run.dir) :
        fs[TomlPath(i)] = Some(run.dir[i].body) /\ fs[TmpPath(i)] = None

\* C15: in a run, for every edge X -> Y inside the set, Y comes before X in
\* the order visited, and when X is converted every dependency Y of X that
\* is not excluded has been converted already.
C15_DependenciesFirst ==
    run.phase \in {"loop", "returned"}
    => /\ \A x \in Names(run.projs) : \A y \in RunDag[x] :
             Position(run.flattened, y) < Position(run.flattened, x)
       /\ \A j \in 1..Len(calls) : \A y \in RunDag[Converted(calls[j])] :
             ~Excluded(run, y)
             => \E k \in 1..(j - 1) : Converted(calls[k]) = y

\* package1 -> package2 -> package3 was found in that order and converted in
\* the order package3, package2, package1.
C15_Witness ==
    /\ run.phase = "returned"
    /\ Len(run.dir) = 3
    /\ run.dir[1] = [pkg |-> Package1, body |-> <<LocalDeclaration(Package2)>>]
    /\ run.dir[2] = [pkg |-> Package2, body |-> <<LocalDeclaration(Package3)>>]
    /\ run.dir[3] = [pkg |-> Package3, body |-> <<>>]
    /\ Len(calls) = 3
    /\ calls[1].src = TomlPath(3) /\ calls[2].src = TomlPath(2) /\ calls[3].src = TomlPath(1)

\* The directory has no duplicate name and its graph has a cycle.
HasCycle(dir) ==
    find_duplicates(Found(dir)) = {} /\ OnCycle(create_dag(Found(dir))) # {}

\* C16: a run over packages whose graph has a cycle raises CycleError with
\* the packages of the cycle and converts nothing: no call of the rewriter,
\* no manifest changed, no temporary file.
C16_CycleRaises ==
    (run.phase # "idle" /\ HasCycle(run.dir))
    => /\ run.phase = "raised"
       /\ run.error # None
       /\ run.error[1].exc = "CycleError"
       /\ run.error[1].names = OnCycle(create_dag(Found(run.dir)))
       /\ calls = <<>>
       /\ NothingWritten

\* package1 -> package2 and package2 -> package1, next to package3, was
\* rejected.
C16_Witness ==
    /\ run.phase = "raised"
    /\ Len(run.dir) = 3
    /\ run.dir[1] = [pkg |-> Package1, body |-> <<LocalDeclaration(Package2)>>]
    /\ run.dir[2] = [pkg |-> Package2, body |-> <<LocalDeclaration(Package1)>>]
    /\ run.dir[3] = [pkg |-> Package3, body |-> <<>>]
    /\ run.error[1].names = {Package1.name, Package2.name}

\* C17: discovery over manifests two of which declare the same name fails
\* with an error and returns no mapping.
C17_DuplicateNamesRejected ==
    (run.phase # "idle" /\ find_duplicates(Found(run.dir)) # {})
    => /\ run.phase = "raised"
       /\ run.error # None
       /\ run.error[1].exc = "ValueError"
       /\ run.projs = <<>>
       /\ calls = <<>>

\* Two different manifests of package1 were found and the run was rejected.
C17_Witness ==
    /\ run.phase = "raised"
    /\ Len(run.dir) = 2
    /\ run.dir[1].pkg = Package1 /\ run.dir[2].pkg = Package1
    /\ run.dir[1].body # run.dir[2].body
    /\ run.error[1].exc = "ValueError"

----------------------------------------------------------------------------
\* C18: the construction fails with FileNotFoundError when the path does not
\* exist and with ValueError when the file is not valid TOML; a failed
\* construction leaves no modifier, so no conversion ever runs on a manifest
\* that was malformed when it was loaded.
C18_LoadFailsFast ==
    /\ (run.phase # "new" /\ fs[Modifier1.src] = None)
       => run.phase = "raised" /\ run.error = Some("FileNotFoundError")
    /\ (run.phase # "new" /\ calls = <<>> /\ fs[Modifier1.src] # None
          /\ ~ValidManifest(fs[Modifier1.src][1]))
       => run.phase = "raised" /\ run.error = Some("ValueError")
    /\ run.phase = "raised" => pmod = None /\ calls = <<>>
    /\ calls # <<>> => pmod # None /\ ValidManifest(calls[1].input)

\* The construction on the text of the repository's test was rejected.
C18_Witness ==
    /\ run.phase = "raised"
    /\ run.error = Some("ValueError")
    /\ fs[Modifier1.src] = Some(<<GarbageLine>>)

----------------------------------------------------------------------------
\* C19: whatever happens to a write, every file holds after a conversion
\* either what it held before or the complete new body.
C19_NoPartialWrite ==
    [][IsCall => \A f \in DOMAIN fs :
                    fs'[f] = fs[f] \/ fs'[f] = Some(NewCall.new_lines)]_vars

\* C20: when toml-sort fails on a conversion that gets as far as running it,
\* the conversion still returns (its change list) and the content written to
\* the destination is kept.
C20_SortFailureNotEscalated ==
    \A i \in 1..Len(calls) :
        (io.kind = "sort" /\ calls[i].use_toml_sort /\ HasDestination(calls[i])
          /\ calls[i].backup_dir = None /\ ~NoRules(calls[i]))
        => calls[i].outcome = "ok"

----------------------------------------------------------------------------
\* The names given in exclude_projects.
ExcludedNames ==
    IF run.exclude_projects = None THEN {} ELSE Range(run.exclude_projects[1])

\* The packages found that exclude_projects does not name.
ToConvert == Names(run.projs) \ ExcludedNames

\* C21: a run calls the rewriter at most once per package and never for a
\* package named in exclude_projects; the mapping has one entry per call, the
\* change list of that call; when the run returns, the packages converted and
\* the keys of the mapping are exactly the packages found that are not
\* excluded.
C21_OncePerPackage ==
    run.phase \in {"loop", "returned"}
    => /\ \A j \in 1..Len(calls) : Converted(calls[j]) \in ToConvert
       /\ \A j, k \in 1..Len(calls) :
             Converted(calls[j]) = Converted(calls[k]) => j = k
       /\ Len(run.changes) = Len(calls)
       /\ \A j \in 1..Len(run.changes) :
             /\ run.changes[j].proj.name = Converted(calls[j])
             /\ run.changes[j].file_changes = calls[j].changes
       /\ run.phase = "returned"
          => /\ { Converted(calls[j]) : j \in 1..Len(calls) } = ToConvert
             /\ { run.changes[j].proj.name : j \in 1..Len(run.changes) } = ToConvert

\* A run over package1 (with a remote reference to package2), package2 and
\* package3 that excludes package2 returned two entries, one with a change.
C21_Witness ==
    /\ run.phase = "returned"
    /\ Len(run.dir) = 3
    /\ run.dir[1] = [pkg |-> Package1, body |-> <<RemoteDeclaration(Package2)>>]
    /\ run.dir[2].pkg = Package2 /\ run.dir[3].pkg = Package3
    /\ run.exclude_projects = Some(<<Package2.name>>)
    /\ Len(run.changes) = 2
    /\ \E j \in 1..2 : run.changes[j].proj = Package1
                        /\ Len(run.changes[j].file_changes) = 1

----------------------------------------------------------------------------
\* The rule's substitution of the original right-hand side of the line, with
\* the fields of the target package left as the template has them.
Unresolved(mp, line) == ReSub(mp.version_regex, mp.version_to, ValueOf(line))

\* The value the rules produce for the key when every matching rule's
\* substitution is applied to the value left by the matching rules before it.
RECURSIVE RunningValue(_, _, _)
RunningValue(rules, key, acc) ==
    IF rules = <<>> THEN acc
    ELSE IF ~Selects(Head(rules), key) THEN RunningValue(Tail(rules), key, acc)
    ELSE RunningValue(Tail(rules), key,
             special_substitutions(
                 ReSub(Head(rules).version_regex, Head(rules).version_to, acc),
                 pyproj, PackagesGet(ReMatch(Head(rules).package_regex, key)[1])))

\* C22: the value written for a line that several rules match is the one
\* obtained by applying each matching rule to the running value, starting
\* from the right-hand side of the line.
C22_RunningValue ==
    \A i \in 1..Len(calls) :
        calls[i].outcome = "ok"
        => \A j \in 1..Len(calls[i].input) :
              Matched(calls[i].input[j], calls[i].rules)
              => calls[i].new_lines[j]
                 = Declaration(KeyOf(calls[i].input[j]),
                               RunningValue(calls[i].rules, KeyOf(calls[i].input[j]),
                                            ValueOf(calls[i].input[j])))

\* C22, amended: every matching rule's substitution is applied to the
\* original right-hand side of the line; the value written for a line that
\* several rules match is the last matching rule's substitution of the
\* original right-hand side, whatever the rules before it produced.
C22_OriginalRightHandSide ==
    \A i \in 1..Len(calls) :
        calls[i].outcome = "ok"
        => \A j \in 1..Len(calls[i].input) :
              (HasKey(calls[i].input[j])
                 /\ Cardinality(MatchingRules(calls[i].rules,
                                              KeyOf(calls[i].input[j]))) >= 2)
              => LET last == LastMatching(calls[i].rules, calls[i].input[j])
                 IN  calls[i].new_lines[j]
                     = Declaration(KeyOf(calls[i].input[j]),
                          special_substitutions(
                              Unresolved(last, calls[i].input[j]), pyproj,
                              PackagesGet(ReMatch(last.package_regex,
                                                  KeyOf(calls[i].input[j]))[1])))

\* The two rules that edit the version matched 'package2 = "^0.2.0"': the
\* running value would be "^0.4.0", and the line was written with "^0.2.0".
C22_Witness ==
    /\ calls # <<>>
    /\ Last.outcome = "ok" /\ Last.rules = BumpRules /\ Last.wrote # None
    /\ \E j \in 1..Len(Last.input) :
          /\ KeyOf(Last.input[j]) = P2Key /\ ValueOf(Last.input[j]) = RemoteValue
          /\ RunningValue(Last.rules, P2Key, RemoteValue) = <<QT, "^0.4.0", QT>>
          /\ Written(Last)[j] = Declaration(P2Key, RemoteValue)

----------------------------------------------------------------------------
\* The rules in force for the call, as its arguments give them.
RulesOf(c) == EffectivePatterns(c.match_patterns, c.packages, TemplateOf(c.op))

\* The name the last matching rule finds in the key of the line is not in
\* the package lookup.
LookupMiss(line, rules) ==
    /\ Matched(line, rules)
    /\ PackagesGet(ReMatch(LastMatching(rules, line).package_regex, KeyOf(line))[1]) = None

\* C23: a call with rules and one output mode, one of whose lines is matched
\* by a rule for a name that is not in the package lookup (and none of whose
\* rules has a template re.sub rejects), does not fail:
\* that line is rewritten with the template as it stands, and every other
\* line is processed as usual.
C23_LookupMissNotFatal ==
    \A i \in 1..Len(calls) :
        LET c == calls[i]
        IN  (/\ c.backup_dir = None /\ HasDestination(c) /\ ~NoRules(c)
             /\ \A j \in 1..Len(c.input) : ~Raises(c.input[j], RulesOf(c))
             /\ \E j \in 1..Len(c.input) : LookupMiss(c.input[j], RulesOf(c)))
            => /\ c.outcome = "ok"
               /\ Len(c.new_lines) = Len(c.input)
               /\ \A j \in 1..Len(c.input) :
                     c.new_lines[j] =
                        IF LookupMiss(c.input[j], RulesOf(c))
                        THEN Declaration(KeyOf(c.input[j]),
                                         Unresolved(LastMatching(RulesOf(c), c.input[j]),
                                                    c.input[j]))
                        ELSE IF Matched(c.input[j], RulesOf(c))
                        THEN Declaration(KeyOf(c.input[j]),
                                         Rendered(LastMatching(RulesOf(c), c.input[j]),
                                                  c.input[j]))
                        ELSE c.input[j]

\* numpy, which is not in the lookup, was rewritten with the template as it
\* stands, and the declaration of package2 after it was converted.
C23_Witness ==
    /\ calls # <<>>
    /\ Last.op = "remote" /\ Last.outcome = "ok" /\ Last.in_place
    /\ Last.input = << Declaration(NumpyKey, <<QT, "^1.21.0", QT>>),
                       Declaration(P2Key, LocalValue) >>
    /\ Last.new_lines = << Declaration(NumpyKey, <<VersionField>>),
                           Declaration(P2Key, RemoteValue) >>
    /\ Len(Last.changes) = 2
    /\ Written(Last) = Last.new_lines

----------------------------------------------------------------------------
\* The text "key = value" plus newline that the rules build for a matched
\* line.
RebuiltText(line, rules) ==
    Declaration(KeyOf(line), Rendered(LastMatching(rules, line), line))

\* The line matched a rule and its rebuilt text differs from it.
Differs(line, rules) == Matched(line, rules) /\ RebuiltText(line, rules) # line

\* One pair (original line, new line) per line that differs, in line order.
RECURSIVE ChangeRecords(_, _)
ChangeRecords(lines, rules) ==
    IF lines = <<>> THEN <<>>
    ELSE (IF Differs(Head(lines), rules)
          THEN << <<Head(lines), RebuiltText(Head(lines), rules)>> >>
          ELSE <<>>)
         \o ChangeRecords(Tail(lines), rules)

\* C24: the change list a conversion returns has exactly one pair (original
\* line, new line) per line that matched a rule and whose rebuilt text
\* differs from it, in line order; a matched line whose rebuilt text is the
\* line itself is kept and not recorded.
C24_ChangeList ==
    \A i \in 1..Len(calls) :
        calls[i].outcome = "ok"
        => /\ calls[i].changes = ChangeRecords(calls[i].input, calls[i].rules)
           /\ \A j \in 1..Len(calls[i].input) :
                 (Matched(calls[i].input[j], calls[i].rules)
                    /\ ~Differs(calls[i].input[j], calls[i].rules))
                 => calls[i].new_lines[j] = calls[i].input[j]

\* A call changed both lines of a manifest and returned the two pairs in
\* the order of the lines.
C24_Witness ==
    /\ calls # <<>>
    /\ Last.outcome = "ok"
    /\ Len(Last.input) = 2 /\ Last.input[1] # Last.input[2]
    /\ Len(Last.changes) = 2
    /\ Last.changes[1][1] = Last.input[1] /\ Last.changes[2][1] = Last.input[2]
    /\ Last.changes[1][2] = Last.new_lines[1] /\ Last.changes[2][2] = Last.new_lines[2]

----------------------------------------------------------------------------
\* C25: a call (with rules, not both output modes) in which the processing
\* of some line raises fails with that error and leaves every file, the
\* source manifest and the destination, as it was.
C25_ErrorBeforeWrite ==
    [][(/\ IsCall
        /\ NewCall.backup_dir = None /\ OneMode(NewCall) /\ ~NoRules(NewCall)
        /\ \E j \in 1..Len(NewCall.input) : Raises(NewCall.input[j], RulesOf(NewCall)))
       => NewCall.outcome = "re.error" /\ fs' = fs]_vars

\* A call with a destination processed the line of numpy, which a rule
\* changes, and failed on the line of package2 after it.
C25_Witness ==
    /\ calls # <<>>
    /\ Last.outcome = "re.error"
    /\ HasDestination(Last)
    /\ Last.match_patterns = Some(BadTemplateRules) /\ Last.packages = None
    /\ Len(Last.input) = 2
    /\ HasKey(Last.input[1]) /\ HasKey(Last.input[2])
    /\ KeyOf(Last.input[1]) = NumpyKey /\ KeyOf(Last.input[2]) = P2Key
    /\ fs[SrcPath] = Some(Last.input) /\ fs[DestPath] = None

----------------------------------------------------------------------------
\* The call being made repeats the first call of the modifier: the same
\* conversion with the same arguments, in place.
RepeatsFirst ==
    /\ IsCall /\ Len(calls) = 1
    /\ NewCall.op = calls[1].op
    /\ NewCall.match_patterns = calls[1].match_patterns
    /\ NewCall.packages = calls[1].packages
    /\ NewCall.dest_file = calls[1].dest_file
    /\ NewCall.in_place = calls[1].in_place
    /\ NewCall.use_toml_sort = calls[1].use_toml_sort
    /\ NewCall.backup_dir = calls[1].backup_dir

\* C26: when an in-place conversion with a package list has returned, the
\* same call made again on the modifier returns an empty change list and
\* leaves every file, the manifest included, as the first call left it.
C26_RepeatChangesNothing ==
    [][(/\ RepeatsFirst
        /\ calls[1].outcome = "ok" /\ calls[1].in_place /\ calls[1].dest_file = None
        /\ calls[1].packages # None)
       => (NewCall.outcome = "ok" /\ NewCall.changes = <<>> /\ fs' = fs)]_vars

\* The first call rewrote the manifest in place with rules made from a
\* package list, and the same call was made again.
C26_Witness ==
    /\ Len(calls) = 2
    /\ calls[1].outcome = "ok" /\ calls[1].in_place /\ calls[1].packages # None
    /\ calls[1].changes # <<>>
    /\ calls[2].op = calls[1].op /\ calls[2].packages = calls[1].packages
    /\ calls[2].match_patterns = calls[1].match_patterns
    /\ calls[2].use_toml_sort = calls[1].use_toml_sort
    /\ calls[2].input = calls[1].new_lines
    /\ calls[2].changes = <<>>
    /\ fs[SrcPath] = Some(calls[1].new_lines)

----------------------------------------------------------------------------
\* The temporary files of the run.
TmpPaths == { TmpPath(i) : i \in 1..Len(run.dir) }

\* C27: at every point of convert_projects_to_local, whatever dry_run is,
\* each manifest found holds the body it had when the run began; a
\* conversion writes to a temporary file only, and no two conversions have
\* the same destination.
C27_SourcesUntouched ==
    /\ \A i \in 1..Len(run.dir) : fs[TomlPath(i)] = Some(run.dir[i].body)
    /\ \A k \in 1..Len(calls) :
          /\ calls[k].dest_file # None /\ calls[k].dest_file[1] \in TmpPaths
          /\ ~calls[k].in_place
          /\ calls[k].wrote # None => calls[k].wrote = calls[k].dest_file
          /\ \A l \in 1..Len(calls) : l # k => calls[l].dest_file # calls[k].dest_file

\* A run with dry_run off returned after a conversion that changed a
\* declaration: the new body is in the temporary file, the old one still
\* in the manifest.
C27_Witness ==
    /\ run.phase = "returned" /\ ~run.dry_run
    /\ \E k \in 1..Len(calls) :
          /\ calls[k].changes # <<>>
          /\ calls[k].wrote # None
          /\ fs[calls[k].wrote[1]] = Some(calls[k].new_lines)
          /\ fs[calls[k].src] = Some(calls[k].input)
          /\ calls[k].input # calls[k].new_lines

----------------------------------------------------------------------------
\* C28: in a conversion that returns, a line with a key that a rule
\* selects and that is not in the dependency table (it is before every
\* header or under [tool.poetry]) is rebuilt as a dependency declaration
\* is: its new text is the one the last matching rule renders, and when
\* that differs from the line the pair (line, new text) is in the change
\* list.
C28_EveryTable ==
    \A i \in 1..Len(calls) :
        calls[i].outcome = "ok"
        => \A j \in 1..Len(calls[i].input) :
              (/\ Matched(calls[i].input[j], calls[i].rules)
               /\ ~InDependencies(calls[i].input, j))
              => /\ calls[i].new_lines[j] = RebuiltText(calls[i].input[j], calls[i].rules)
                 /\ Differs(calls[i].input[j], calls[i].rules)
                    => \E n \in 1..Len(calls[i].changes) :
                          calls[i].changes[n] =
                              <<calls[i].input[j],
                                RebuiltText(calls[i].input[j], calls[i].rules)>>

\* A conversion to local of a manifest whose key package2 is under
\* [tool.poetry] turned it into a path reference and reported the change.
C28_Witness ==
    /\ calls # <<>>
    /\ Last.outcome = "ok" /\ Last.op = "local"
    /\ Last.input = <<ToolPoetryHeader, Declaration(P2Key, RemoteValue)>>
    /\ Last.new_lines = <<ToolPoetryHeader, Declaration(P2Key, LocalValue)>>
    /\ Last.changes = << <<Declaration(P2Key, RemoteValue), Declaration(P2Key, LocalValue)>> >>

====
